---------------------------- MODULE Spec2Model ----------------------------
(***************************************************************************)
(* Leaderboard refresh / rank pipeline of frontend/src/App.js:             *)
(*   - loadData (fetch, defensive sort, norm, rank-map persistence),       *)
(*   - the mount-time load and the even-hour :30 re-fetch loop,            *)
(*   - buildRankMap and msUntilNextEvenHour30 as pure functions.           *)
(*   - the month-reset countdown, handleSearch, fmtDDHHMM, diffToDHMS.     *)
(* The specifications share the variables:                                 *)
(*   Spec       the component: loadData invocations, timer loop, teardown; *)
(*   SpecSearch Spec together with handleSearch;                           *)
(*   SpecRank   sort -> norm -> buildRankMap applied to bounded row lists; *)
(*   SpecSched  arm() / msUntilNextEvenHour30 driven by a wall clock;      *)
(*   SpecClock  the countdown ticker (target, tleft);                      *)
(*   SpecDiff   diffToDHMS applied to pairs of instants;                   *)
(*   SpecFmt    fmtDDHHMM applied to values of time_taken_hours.           *)
(***************************************************************************)
EXTENDS Integers, Sequences, FiniteSets, TLC

VARIABLES
    configOk,       \* SUPABASE_URL && SUPABASE_ANON are both set (module constants)
    storage,        \* localStorage[LS_RANK_KEY]
    prevRankById,   \* React state: previous rank map shown to the presentation layer
    originalData,   \* React state: published snapshot
    data,           \* React state: rows handed to the table
    load,           \* the loadData invocations (mount-time one, timer-loop one)
    timerArmed,     \* a setTimeout of the re-fetch loop is pending
    awaiting,       \* the timer callback is suspended at `await loadData()`
    cancelled,      \* the re-fetch effect's `cancelled` flag
    phase,          \* "rendered" | "mounted" | "unmounted"
    ev,             \* the handler that ran last and how its loadData ended
    storeAtRead,    \* history: localStorage value seen by the latest loadData read
    wrote,          \* history: a cycle of this session wrote the key
    writeThrew,     \* history: setItem threw in the latest cycle that published
    fetched,        \* history: rows of the body the latest ended cycle received
    searchQuery,    \* React state: the lower-cased text of the search box
    probe,          \* SpecRank, SpecDiff, SpecFmt: the value under the function
    tz,             \* SpecSched: the client's time zone
    now,            \* SpecSched: current instant, ms after the reference UTC midnight
    due,            \* SpecSched: instant at which the armed timer is due
    tpc,            \* SpecSched: "init" | "armed" | "loading"
    arms,           \* SpecSched: how many times arm() ran
    clock,          \* SpecClock: the instant `new Date()` returns
    target,         \* React state: the next month reset
    tleft,          \* React state: {d, h, m, s} left to target
    tick            \* SpecClock: what the latest render / interval callback did

vars == <<configOk, storage, prevRankById, originalData, data, load, timerArmed,
          awaiting,
          cancelled, phase, ev, storeAtRead, wrote, writeThrew, fetched,
          searchQuery, probe, tz, now, due, tpc, arms, clock, target, tleft, tick>>

mainVars == <<configOk, storage, prevRankById, originalData, data, load,
              timerArmed, awaiting, cancelled, phase, ev, storeAtRead, wrote, writeThrew,
              fetched, searchQuery>>
schedVars == <<tz, now, due, tpc, arms>>
clockVars == <<clock, target, tleft, tick>>

(***************************************************************************)
(* Bounds of the model.                                                    *)
(***************************************************************************)
MaxRows == 3        \* SpecRank: longest row list
MaxBodyRows == 2    \* Spec: longest response body
MaxArms == 3        \* SpecSched: arm() calls per behaviour

(***************************************************************************)
(* JavaScript values.                                                      *)
(***************************************************************************)
\* pct_change as it arrives in the JSON body
PctNum(n) == [t |-> "num", v |-> n]
PctNull == [t |-> "null", v |-> 0]
PctMissing == [t |-> "undefined", v |-> 0]     \* the key is absent

\* account_id: a string; NullId stands for null / a missing key
NullId == "<null>"

Row(id, pct) == [account_id |-> id, pct_change |-> pct]

\* Number(v): a number is itself, null -> 0, undefined -> NaN
NumberOf(p) ==
    CASE p.t = "num" -> [nan |-> FALSE, v |-> p.v]
      [] p.t = "null" -> [nan |-> FALSE, v |-> 0]
      [] OTHER -> [nan |-> TRUE, v |-> 0]

\* Number.isFinite(Number(v)) ? Number(v) : -Infinity
SortKey(r) ==
    LET n == NumberOf(r.pct_change)
    IN  IF ~n.nan THEN [neginf |-> FALSE, v |-> n.v] ELSE [neginf |-> TRUE, v |-> 0]

Sign(n) == IF n > 0 THEN 1 ELSE IF n < 0 THEN -1 ELSE 0

\* the comparator (a, b) => bv - av, as Array.prototype.sort reads it:
\* (-Infinity) - (-Infinity) is NaN, which sort treats as +0
Compare(a, b) ==
    LET av == SortKey(a)
        bv == SortKey(b)
    IN  CASE av.neginf /\ bv.neginf -> 0
          [] av.neginf -> 1
          [] bv.neginf -> -1
          [] OTHER -> Sign(bv.v - av.v)

\* stable insertion: x goes before the first element that must follow it
RECURSIVE InsertStable(_, _)
InsertStable(s, x) ==
    IF s = <<>> THEN <<x>>
    ELSE IF Compare(Head(s), x) > 0 THEN <<x>> \o s
    ELSE <<Head(s)>> \o InsertStable(Tail(s), x)

\* rows.sort(comparator): Array.prototype.sort is stable
RECURSIVE SortFrom(_, _)
SortFrom(done, rest) ==
    IF rest = <<>> THEN done
    ELSE SortFrom(InsertStable(done, Head(rest)), Tail(rest))

SortRows(rows) == SortFrom(<<>>, rows)

\* norm: `??` defaults (account_id ?? "", pct_change ?? null)
Norm(r) ==
    Row(IF r.account_id = NullId THEN "" ELSE r.account_id,
        IF r.pct_change.t = "undefined" THEN PctNull ELSE r.pct_change)

NormAll(rows) == [i \in 1..Len(rows) |-> Norm(rows[i])]

(***************************************************************************)
(* Rank maps: JS objects { [account_id]: 0-based rank }, as functions.     *)
(***************************************************************************)
EmptyMap == [k \in {} |-> 0]

Put(m, k, v) == [x \in (DOMAIN m) \cup {k} |-> IF x = k THEN v ELSE m[x]]

\* String(rows[i]?.account_id ?? "")
IdStr(r) == IF r.account_id = NullId THEN "" ELSE r.account_id

\* mutant: 1-based ranks
RankAt_OneBased(i) == i

\* the loop index of buildRankMap for the i-th row (sequences are 1-based)
RankAt(i) == i - 1

RECURSIVE BuildFrom(_, _, _)
BuildFrom(rows, i, m) ==
    IF i > Len(rows) THEN m
    ELSE BuildFrom(rows, i + 1,
                   IF IdStr(rows[i]) # "" THEN Put(m, IdStr(rows[i]), RankAt(i)) ELSE m)

buildRankMap(rows) == BuildFrom(rows, 1, EmptyMap)

\* mutant: the display index counts from 1
GlobalRankAt_OneBased(i) == i

\* the loop index of the globalRankById memo for the i-th row
GlobalRankAt(i) == i - 1

\* String(originalData[i]["account_id"] ?? "")
GlobalIdStr(r) == IF r.account_id = NullId THEN "" ELSE r.account_id

RECURSIVE GlobalRankFrom(_, _, _)
GlobalRankFrom(rows, i, m) ==
    IF i > Len(rows) THEN m
    ELSE GlobalRankFrom(rows, i + 1,
                        IF GlobalIdStr(rows[i]) # ""
                        THEN Put(m, GlobalIdStr(rows[i]), GlobalRankAt(i)) ELSE m)

(***************************************************************************)
(* Row universes.                                                          *)
(***************************************************************************)
SeqsUpTo(S, n) == UNION {[1..k -> S] : k \in 0..n}

ProbeIds == {"a", "b", "", NullId}
ProbePcts == {PctNum(-1), PctNum(1), PctNull, PctMissing}
ProbeRows == {Row(id, p) : id \in ProbeIds, p \in ProbePcts}
ProbeLists == SeqsUpTo(ProbeRows, MaxRows)


BodyRows == {Row("a", PctNum(1)), Row("a", PctNum(3)), Row("b", PctNum(2))}
Bodies == SeqsUpTo(BodyRows, MaxBodyRows)      \* JSON arrays the endpoint may return

(***************************************************************************)
(* localStorage and JSON.  A stored value is absent, text that is not      *)
(* JSON, the text "null", or the text of an object; a parsed value is an   *)
(* object or null.                                                         *)
(***************************************************************************)
JsObj(m) == [t |-> "obj", m |-> m]
JsNull == [t |-> "null", m |-> EmptyMap]

StoreAbsent == [t |-> "absent", m |-> EmptyMap]
StoreCorrupt == [t |-> "corrupt", m |-> EmptyMap]
StoreNullText == [t |-> "null", m |-> EmptyMap]

\* JSON.stringify(nextRankMap)
Stringify(m) == [t |-> "obj", m |-> m]

\* try { JSON.parse(localStorage.getItem(LS_RANK_KEY) || "{}") } catch { {} }
ReadPrev(store) ==
    CASE store.t = "absent" -> JsObj(EmptyMap)
      [] store.t = "corrupt" -> JsObj(EmptyMap)
      [] store.t = "null" -> JsNull
      [] OTHER -> JsObj(store.m)

(***************************************************************************)
(* loadData.                                                               *)
(***************************************************************************)
LoadIds == {"mount", "timer"}

IdleLoad == [pc |-> "idle", outcome |-> "none", cause |-> "none",
             reads |-> 0, exposes |-> 0, writes |-> 0, settled |-> "pending"]

\* what `await fetch(...)` and the body deliver: the request rejects, the
\* status is not 2xx, the body is not JSON, the body is JSON but no array
\* (an object, null, a number), or the body is a JSON array of rows
Response(kind, rows) == [kind |-> kind, rows |-> rows]
Responses ==
    {Response(k, <<>>) : k \in {"reject", "status", "notjson", "nonarray"}}
        \cup {Response("array", b) : b \in Bodies}

\* where loadData throws on a response: `await fetch` (547), the res.ok
\* test (553-556), `await res.json()` (558), rows.sort (561: a value that is
\* no array has no sort, so the Array.isArray test of 579 is never reached
\* with one); "none" when it does not throw
ThrowsAt(resp) ==
    CASE resp.kind = "reject" -> "fetch"
      [] resp.kind = "status" -> "status"
      [] resp.kind = "notjson" -> "json"
      [] resp.kind = "nonarray" -> "sort"
      [] OTHER -> "none"

\* the await at which loadData is suspended when a response decides how it
\* ends: `await fetch` (547) for a rejected request, `await res.text()`
\* (554) for a status that is not 2xx, `await res.json()` (558) otherwise
AwaitedAt(resp) ==
    CASE resp.kind = "reject" -> "fetching"
      [] resp.kind = "status" -> "text"
      [] OTHER -> "json"

\* a loadData that is suspended at one of its awaits
Suspended(ld) == ld.pc \in {"fetching", "text", "json"}

NoEvent == [op |-> "none", id |-> "-", outcome |-> "none"]
Event(op, id, outcome) == [op |-> op, id |-> id, outcome |-> outcome]

\* history record of a loadData read: the stored value it saw, and whether
\* a cycle of this session had written it
NoneYet == [some |-> FALSE, v |-> StoreAbsent, fresh |-> FALSE]
SeenAt(store, fresh) == [some |-> TRUE, v |-> store, fresh |-> fresh]

\* mutant: the catch block keeps the stale snapshot
DataAfterFailure_Stale(current) == current

\* catch: setOriginalData([]); setData([])
DataAfterFailure(current) == <<>>

\* mutant: the catch block persists an empty map
StoreAfterFailure_Reset(store) == Stringify(EmptyMap)

\* catch: localStorage is not touched
StoreAfterFailure(store) == store

\* "write NEW map for next refresh (don't use it for arrows now)"
PrevAfterPersist(prev, nextRankMap) == prev

\* mutant: the previous map is read before the configuration check
ReadsBeforeRequest_Always(cfg) == TRUE

\* whether loadData reaches the read of the previous map: the configuration
\* check throws first
ReadsBeforeRequest(cfg) == cfg

\* how loadData's promise settles when it threw at `at`: every throwing
\* statement is inside the try, and the catch rethrows nothing
Settle(at) == "resolved"

\* loadData up to its first await, for invocation i: the configuration
\* check, the read of the previous map, setPrevRankById, the request
BeginLoad(i) ==
    LET reads == ReadsBeforeRequest(configOk)
    IN  /\ load' = [load EXCEPT ![i] =
                       [pc |-> IF configOk THEN "fetching" ELSE "done",
                        outcome |-> IF configOk THEN "none" ELSE "failed",
                        cause |-> IF configOk THEN "none" ELSE "config",
                        reads |-> IF reads THEN 1 ELSE 0,
                        exposes |-> IF reads THEN 1 ELSE 0,
                        writes |-> 0,
                        settled |-> IF configOk THEN "pending" ELSE Settle("config")]]
        /\ prevRankById' = IF reads THEN ReadPrev(storage) ELSE prevRankById
        /\ storeAtRead' = IF reads THEN SeenAt(storage, wrote) ELSE storeAtRead
        /\ originalData' = IF configOk THEN originalData ELSE DataAfterFailure(originalData)
        /\ data' = IF configOk THEN data ELSE DataAfterFailure(data)
        /\ storage' = IF configOk THEN storage ELSE StoreAfterFailure(storage)
        /\ fetched' = IF configOk THEN fetched ELSE 0

\* mutant: a throwing setItem reaches the catch of loadData
AfterWriteThrow_Caught(nextData) == <<>>

\* try { localStorage.setItem(...) } catch {}: the throw is swallowed and
\* setOriginalData(nextData); setData(nextData) run as after a write
AfterWriteThrow(nextData) == nextData

\* useMemo(() => { ... }, [originalData]): the rank index used for display
globalRankById == GlobalRankFrom(originalData, 1, EmptyMap)

\* arm() after `await loadData()`: reached when the promise resolved
Rearms(settled) == settled = "resolved"

(***************************************************************************)
(* Handlers.                                                               *)
(***************************************************************************)
\* commit of the first render: useEffect(loadData) then useEffect(arm)
Mount ==
    /\ phase = "rendered"
    /\ phase' = "mounted"
    /\ BeginLoad("mount")
    /\ timerArmed' = TRUE
    /\ ev' = Event("Mount", "mount", IF configOk THEN "started" ELSE "failed")
    /\ UNCHANGED <<configOk, awaiting, cancelled, wrote, writeThrew, searchQuery>>

\* the setTimeout callback of arm(), up to its `await loadData()`
TimerFire ==
    /\ timerArmed
    /\ timerArmed' = FALSE
    /\ IF cancelled
       THEN /\ ev' = Event("TimerFire", "-", "none")
            /\ UNCHANGED <<storage, prevRankById, originalData, data, load,
                           storeAtRead, fetched, awaiting>>
       ELSE /\ BeginLoad("timer")
            /\ awaiting' = TRUE
            /\ ev' = Event("TimerFire", "timer", IF configOk THEN "started" ELSE "failed")
    /\ UNCHANGED <<configOk, cancelled, phase, wrote, writeThrew, searchQuery>>

\* the timer callback resumes after `await loadData()`, one microtask turn
\* after loadData returned: arm()
Rearm ==
    /\ awaiting
    /\ load["timer"].pc = "done"
    /\ Rearms(load["timer"].settled)
    /\ awaiting' = FALSE
    /\ timerArmed' = TRUE
    /\ ev' = Event("Rearm", "timer", "none")
    /\ UNCHANGED <<configOk, storage, prevRankById, originalData, data, load,
                   cancelled, phase, storeAtRead, wrote, writeThrew, fetched,
                   searchQuery>>

\* loadData of invocation i resumes after `await fetch`: it tests res.ok and
\* suspends again, at `await res.json()` or at `await res.text()`
FetchResume(i, ok) ==
    /\ load[i].pc = "fetching"
    /\ load' = [load EXCEPT ![i].pc = IF ok THEN "json" ELSE "text"]
    /\ UNCHANGED <<configOk, storage, prevRankById, originalData, data, timerArmed,
                   awaiting, cancelled, phase, ev, storeAtRead, wrote, writeThrew,
                   fetched, searchQuery>>

\* `await res.json()` of invocation i delivers an array and nothing throws:
\* sort, norm, buildRankMap, setItem (which may throw and is swallowed),
\* setOriginalData, setData
FetchOk(i, resp, writeOk) ==
    /\ load[i].pc = "json"
    /\ ThrowsAt(resp) = "none"
    /\ LET rows == SortRows(resp.rows)
           nextData == NormAll(rows)
           nextRankMap == buildRankMap(nextData)
       IN  /\ storage' = IF writeOk THEN Stringify(nextRankMap) ELSE storage
           /\ wrote' = (wrote \/ writeOk)
           /\ writeThrew' = ~writeOk
           /\ prevRankById' = PrevAfterPersist(prevRankById, nextRankMap)
           /\ originalData' = IF writeOk THEN nextData ELSE AfterWriteThrow(nextData)
           /\ data' = IF writeOk THEN nextData ELSE AfterWriteThrow(nextData)
           /\ fetched' = Len(resp.rows)
    /\ load' = [load EXCEPT ![i].pc = "done", ![i].outcome = "ok",
                            ![i].writes = @ + 1, ![i].settled = "resolved"]
    /\ ev' = Event("FetchOk", i, "ok")
    /\ UNCHANGED <<configOk, timerArmed, awaiting, cancelled, phase, storeAtRead,
                   searchQuery>>

\* the await invocation i is suspended at settles and loadData throws: the
\* request rejected, res.text() of a non-2xx response arrived, res.json()
\* rejected, or it delivered a value without sort; the catch runs
FetchFail(i, resp) ==
    /\ ThrowsAt(resp) # "none"
    /\ load[i].pc = AwaitedAt(resp)
    /\ originalData' = DataAfterFailure(originalData)
    /\ data' = DataAfterFailure(data)
    /\ storage' = StoreAfterFailure(storage)
    /\ fetched' = 0
    /\ load' = [load EXCEPT ![i].pc = "done", ![i].outcome = "failed",
                            ![i].cause = "fetch", ![i].settled = Settle(ThrowsAt(resp))]
    /\ ev' = Event("FetchFail", i, "failed")
    /\ UNCHANGED <<configOk, prevRankById, timerArmed, awaiting, cancelled, phase,
                   storeAtRead, wrote, writeThrew, searchQuery>>

\* cleanup of the re-fetch effect: cancelled = true; clearTimeout(timeoutId)
Unmount ==
    /\ phase = "mounted"
    /\ phase' = "unmounted"
    /\ cancelled' = TRUE
    /\ timerArmed' = FALSE
    /\ ev' = Event("Unmount", "-", "none")
    /\ UNCHANGED <<configOk, storage, prevRankById, originalData, data, load,
                   awaiting, storeAtRead, wrote, writeThrew, fetched, searchQuery>>

(***************************************************************************)
(* Spec: the component.                                                    *)
(***************************************************************************)
ProbeParked == [stage |-> "parked", rows |-> <<>>, map |-> EmptyMap]
SchedParked == tz = "UTC" /\ now = 0 /\ due = 0 /\ tpc = "parked" /\ arms = 0
ClockParked == clock = 0 /\ target = 0 /\ tleft = 0 /\ tick = "parked"

\* values an earlier session may have left under the key
InitialStores ==
    {StoreAbsent, StoreCorrupt, StoreNullText}
        \cup {Stringify(buildRankMap(NormAll(SortRows(b)))) : b \in SeqsUpTo(BodyRows, 1)}

Init ==
    /\ configOk \in BOOLEAN
    /\ storage \in InitialStores
    /\ prevRankById = ReadPrev(storage)        \* useState initializer
    /\ originalData = <<>>
    /\ data = <<>>
    /\ load = [i \in LoadIds |-> IdleLoad]
    /\ timerArmed = FALSE
    /\ awaiting = FALSE
    /\ cancelled = FALSE
    /\ phase = "rendered"
    /\ ev = NoEvent
    /\ storeAtRead = NoneYet
    /\ wrote = FALSE
    /\ writeThrew = FALSE
    /\ fetched = 0
    /\ searchQuery = <<>>                       \* useState("")
    /\ probe = ProbeParked
    /\ SchedParked
    /\ ClockParked

Next ==
    \/ Mount /\ UNCHANGED <<probe, schedVars, clockVars>>
    \/ TimerFire /\ UNCHANGED <<probe, schedVars, clockVars>>
    \/ Rearm /\ UNCHANGED <<probe, schedVars, clockVars>>
    \/ \E i \in LoadIds, ok \in BOOLEAN :
           FetchResume(i, ok) /\ UNCHANGED <<probe, schedVars, clockVars>>
    \/ \E i \in LoadIds, resp \in Responses, writeOk \in BOOLEAN :
           FetchOk(i, resp, writeOk) /\ UNCHANGED <<probe, schedVars, clockVars>>
    \/ \E i \in LoadIds, resp \in Responses :
           FetchFail(i, resp) /\ UNCHANGED <<probe, schedVars, clockVars>>
    \/ Unmount /\ UNCHANGED <<probe, schedVars, clockVars>>

Spec == Init /\ [][Next]_vars

(***************************************************************************)
(* Claims checked under Spec.                                              *)
(***************************************************************************)

\* C1 (as claimed): when a cycle completes successfully after a cycle of
\* this session persisted a rank map, the map exposed as "previous" is the
\* map that earlier cycle persisted, i.e. the stored value just before the
\* completing cycle's own write; and the completing cycle had read and
\* exposed the previous map once before it wrote.
C1_PrevIsPriorCycleMap ==
    [][\A i \in LoadIds :
           (/\ load[i].pc = "json"
            /\ load'[i].pc = "done"
            /\ load'[i].outcome = "ok"
            /\ wrote) =>
               /\ prevRankById' = ReadPrev(storage)
               /\ load'[i].reads = 1 /\ load'[i].exposes = 1]_vars

\* C2: a loadData that just ended in failure left originalData and data
\* empty and its promise resolved (nothing was rethrown); when it was the
\* timer loop's, the callback that awaits it resumes with arm(), and once it
\* has resumed a timer is armed.
C2_FailureGivesEmpty ==
    /\ ev.outcome = "failed" =>
           /\ originalData = <<>>
           /\ data = <<>>
           /\ load[ev.id].outcome = "failed"
           /\ load[ev.id].settled = "resolved"
           /\ ev.id = "timer" => (awaiting /\ ~timerArmed)
    /\ ev.op = "Rearm" => (timerArmed /\ ~awaiting)

\* C2 witness: the mount-time load published a non-empty snapshot, then the
\* timer cycle's request failed and the snapshot is empty.
C2_Witness ==
    /\ ev = Event("FetchFail", "timer", "failed")
    /\ load["mount"].outcome = "ok"
    /\ wrote /\ storage.t = "obj" /\ storage.m # EmptyMap
    /\ originalData = <<>> /\ data = <<>>

\* C5 (as claimed): at most one loadData is in flight.
C5_NoOverlap == Cardinality({i \in LoadIds : Suspended(load[i])}) <= 1

\* C6 (as claimed): once the cleanup has run, no re-fetch timer is armed.
C6_NoTimerAfterTeardown == cancelled => ~timerArmed

\* C7 (as claimed): every attempt, a configuration failure included, has
\* read the previous map and called setPrevRankById exactly once by the time
\* its request is pending.
C7_ReadOncePerAttempt ==
    \A i \in LoadIds :
        load[i].pc # "idle" => load[i].reads = 1 /\ load[i].exposes = 1

\* C7 (amended): an attempt that passes the configuration check has read the
\* previous map and exposed it exactly once while its request is pending and
\* after; an attempt that fails the configuration check does neither.
C7_ReadOnceUnlessConfig ==
    \A i \in LoadIds :
        load[i].pc # "idle" =>
            IF load[i].cause = "config"
            THEN load[i].reads = 0 /\ load[i].exposes = 0
            ELSE load[i].reads = 1 /\ load[i].exposes = 1

\* C7 witness: a request is pending and the read and the exposure have
\* happened, once each.
C7_Witness ==
    /\ load["timer"].pc = "fetching"
    /\ load["timer"].reads = 1 /\ load["timer"].exposes = 1
    /\ prevRankById = ReadPrev(storage)

\* C8: the stored value changes only in the step in which a loadData ends
\* in success; a finished loadData called setItem once if it succeeded and
\* never if it failed.
C8_WriteOnlyOnSuccess ==
    [][/\ storage' # storage =>
              \E i \in LoadIds : /\ load[i].pc = "json"
                                 /\ load'[i].pc = "done"
                                 /\ load'[i].outcome = "ok"
       /\ \A i \in LoadIds :
              load'[i].pc = "done" =>
                  load'[i].writes = IF load'[i].outcome = "ok" THEN 1 ELSE 0]_vars

\* C8 witness: a cycle persisted a non-empty map, a later request failed,
\* and the stored map is still there.
C8_Witness ==
    /\ ev.outcome = "failed"
    /\ load["mount"].outcome = "ok" /\ load["mount"].writes = 1
    /\ load["timer"].outcome = "failed" /\ load["timer"].writes = 0
    /\ wrote /\ storage.t = "obj" /\ storage.m # EmptyMap

\* C16: a cycle whose request and parsing succeeded and whose setItem threw
\* publishes all the rows it fetched, in descending pct_change order, to
\* originalData and data, leaves the stored value as it was and ends as a
\* success; when it is the timer loop's, the callback that awaits it resumes
\* with arm(), which arms a timer.
C16_WriteFailureNotFatal ==
    [][ /\ (writeThrew /\ awaiting /\ ~awaiting') => timerArmed'
        /\ \A i \in LoadIds :
          (/\ load[i].pc = "json"
           /\ load'[i].pc = "done"
           /\ ev' = Event("FetchOk", i, "ok")
           /\ writeThrew') =>
              /\ Len(originalData') = fetched'
              /\ \A k \in 1..(Len(originalData') - 1) :
                     originalData'[k].pct_change.v >= originalData'[k + 1].pct_change.v
              /\ data' = originalData'
              /\ storage' = storage
              /\ load'[i].outcome = "ok"
              /\ load'[i].settled = "resolved"
              /\ i = "timer" => awaiting' ]_vars

\* the timer cycle fetched two rows, setItem threw: the rows are published,
\* the stored map is still the one of an earlier snapshot, and the callback
\* has resumed and armed a timer
C16_Witness ==
    /\ ev = Event("Rearm", "timer", "none")
    /\ load["timer"].outcome = "ok"
    /\ writeThrew
    /\ Len(originalData) = 2
    /\ storage # Stringify(buildRankMap(originalData))
    /\ timerArmed

\* C14: loading the persisted map fails soft: after every read by loadData
\* the previous map exposed is a mapping, and it is the empty mapping unless
\* the stored value was the text of an id -> rank object, which is exposed
\* as it is.
C14_LoadFailsSoft ==
    storeAtRead.some =>
        /\ prevRankById.t = "obj"
        /\ prevRankById =
               (IF storeAtRead.v.t = "obj" THEN JsObj(storeAtRead.v.m)
                ELSE JsObj(EmptyMap))

\* C19: when the published snapshot is non-empty and the setItem of the
\* cycle that published it did not throw, the stored value is the text of
\* buildRankMap of that snapshot, and that map is the rank index used for
\* display, whatever cycles (mount-time or timer, successful or failed,
\* overlapping or not) ran before.
C19_StoredMapIsDisplayedRanks ==
    (originalData # <<>> /\ ~writeThrew) =>
        /\ storage = Stringify(buildRankMap(originalData))
        /\ globalRankById = buildRankMap(originalData)

\* both cycles published: the mount-time load settled last, after the timer
\* cycle, and the stored map is the one of its two-row snapshot
C19_Witness ==
    /\ ev = Event("FetchOk", "mount", "ok")
    /\ load["timer"].outcome = "ok"
    /\ ~writeThrew
    /\ Len(originalData) = 2
    /\ DOMAIN globalRankById = {"a", "b"}
    /\ storage = Stringify(globalRankById)

(***************************************************************************)
(* SpecSearch: the component together with the search box.  Strings that   *)
(* are searched are sequences of one-character strings.                    *)
(***************************************************************************)
TopRows == 30

\* String.prototype.toLowerCase, on the characters of the model
LowerChar(c) == IF c = "A" THEN "a" ELSE IF c = "B" THEN "b" ELSE c

toLowerCase(text) == [k \in 1..Len(text) |-> LowerChar(text[k])]

\* String(n) for an integer n
RECURSIVE DigitsOf(_)
DigitsOf(n) ==
    LET d == <<"0", "1", "2", "3", "4", "5", "6", "7", "8", "9">>[(n % 10) + 1]
    IN  IF n < 10 THEN <<d>> ELSE DigitsOf(n \div 10) \o <<d>>

StringOfNumber(n) == IF n < 0 THEN <<"-">> \o DigitsOf(-n) ELSE DigitsOf(n)

\* String(val ?? "") for the values of a normalised row: the account_id
\* (identifiers of the model are one character long) and the pct_change
AccountIdText(id) == IF id = "" \/ id = NullId THEN <<>> ELSE <<id>>

PctText(p) == IF p.t = "num" THEN StringOfNumber(p.v) ELSE <<>>

\* String.prototype.includes
Includes(text, q) ==
    \E k \in 0..(Len(text) - Len(q)) : SubSeq(text, k + 1, k + Len(q)) = q

\* Object.values(row).some(val => String(val ?? "").toLowerCase().includes(q));
\* the fields the bodies of the model leave out are "" or null after norm
RowMatches(row, q) ==
    \/ Includes(toLowerCase(AccountIdText(row.account_id)), q)
    \/ Includes(toLowerCase(PctText(row.pct_change)), q)
    \/ Includes(<<>>, q)

\* Array.prototype.filter
RECURSIVE FilterRows(_, _)
FilterRows(rows, q) ==
    IF rows = <<>> THEN <<>>
    ELSE (IF RowMatches(Head(rows), q) THEN <<Head(rows)>> ELSE <<>>)
             \o FilterRows(Tail(rows), q)

\* originalData.slice(0, 30)
top30Data ==
    SubSeq(originalData, 1,
           IF Len(originalData) < TopRows THEN Len(originalData) ELSE TopRows)

\* searchQuery ? data : top30Data
rowsToRender == IF searchQuery # <<>> THEN data ELSE top30Data

\* texts typed into the search box
SearchInputs == {<<>>, <<"A">>, <<"3">>}

\* onChange of the search box with e.target.value = text
handleSearch(text) ==
    /\ phase = "mounted"
    /\ LET q == toLowerCase(text)
       IN  /\ searchQuery' = q
           /\ data' = IF q = <<>> THEN originalData ELSE FilterRows(originalData, q)
    /\ ev' = Event("handleSearch", "-", "none")
    /\ UNCHANGED <<configOk, storage, prevRankById, originalData, load, timerArmed,
                   awaiting, cancelled, phase, storeAtRead, wrote, writeThrew,
                   fetched>>

NextSearch ==
    \/ Next
    \/ \E text \in SearchInputs :
           handleSearch(text) /\ UNCHANGED <<probe, schedVars, clockVars>>

SpecSearch == Init /\ [][NextSearch]_vars

\* C18 (as claimed): with a non-empty query the rows rendered are the rows
\* of the current snapshot that contain the query, in snapshot order; with
\* an empty query they are the first 30 rows of the current snapshot.
C18_FilteredViewOfSnapshot ==
    rowsToRender =
        (IF searchQuery # <<>>
         THEN FilterRows(originalData, searchQuery)
         ELSE SubSeq(originalData, 1,
                     IF Len(originalData) < 30 THEN Len(originalData) ELSE 30))


(***************************************************************************)
(* SpecRank: the defensive sort, norm and buildRankMap of loadData applied *)
(* to every row list of up to MaxRows rows.                                *)
(***************************************************************************)
MainParked ==
    /\ configOk = TRUE
    /\ storage = StoreAbsent
    /\ prevRankById = ReadPrev(StoreAbsent)
    /\ originalData = <<>>
    /\ data = <<>>
    /\ load = [i \in LoadIds |-> IdleLoad]
    /\ timerArmed = FALSE
    /\ awaiting = FALSE
    /\ cancelled = FALSE
    /\ phase = "parked"
    /\ ev = NoEvent
    /\ storeAtRead = NoneYet
    /\ wrote = FALSE
    /\ writeThrew = FALSE
    /\ fetched = 0
    /\ searchQuery = <<>>

InitRank ==
    /\ probe \in {[stage |-> "in", rows |-> l, map |-> EmptyMap] : l \in ProbeLists}
    /\ MainParked
    /\ SchedParked
    /\ ClockParked

\* rows.sort(...)
ProbeSort ==
    /\ probe.stage = "in"
    /\ probe' = [probe EXCEPT !.stage = "sorted", !.rows = SortRows(probe.rows)]

\* rows.map(norm)
ProbeNorm ==
    /\ probe.stage = "sorted"
    /\ probe' = [probe EXCEPT !.stage = "normed", !.rows = NormAll(probe.rows)]

\* buildRankMap(rows): of nextData as loadData calls it, or of any list
ProbeRank ==
    /\ probe.stage \in {"in", "normed"}
    /\ probe' = [probe EXCEPT !.stage = "ranked", !.map = buildRankMap(probe.rows)]

NextRank ==
    \/ ProbeSort /\ UNCHANGED <<mainVars, schedVars, clockVars>>
    \/ ProbeNorm /\ UNCHANGED <<mainVars, schedVars, clockVars>>
    \/ ProbeRank /\ UNCHANGED <<mainVars, schedVars, clockVars>>

SpecRank == InitRank /\ [][NextRank]_vars

\* in a published (normed) row, pct_change is a finite number
IsFinitePct(r) == r.pct_change.t = "num"

\* C3 (as claimed): in the sorted, normed snapshot every row without a
\* finite pct_change comes after every row with one, and the finite values
\* are in non-increasing order.
C3_NullsLastFiniteDesc ==
    probe.stage = "normed" =>
        \A i, j \in 1..Len(probe.rows) :
            i < j =>
                /\ IsFinitePct(probe.rows[j]) => IsFinitePct(probe.rows[i])
                /\ IsFinitePct(probe.rows[i]) /\ IsFinitePct(probe.rows[j])
                       => probe.rows[i].pct_change.v >= probe.rows[j].pct_change.v

PositionsOf(rows, id) == {i \in 1..Len(rows) : IdStr(rows[i]) = id}
IdsOf(rows) == {IdStr(rows[i]) : i \in 1..Len(rows)} \ {""}
MaxOf(S) == CHOOSE x \in S : \A y \in S : y <= x
RanksOf(m) == {m[k] : k \in DOMAIN m}

\* C4 (as claimed): the keys are the non-empty identifiers, each value is a
\* position of its identifier, and the values are exactly 0..K-1 for K the
\* number of rows with a non-empty identifier.
C4_DensePermutation ==
    probe.stage = "ranked" =>
        LET rows == probe.rows
            m == probe.map
            K == Cardinality({i \in 1..Len(rows) : IdStr(rows[i]) # ""})
        IN  /\ DOMAIN m = IdsOf(rows)
            /\ \A id \in DOMAIN m : m[id] + 1 \in PositionsOf(rows, id)
            /\ RanksOf(m) = 0..(K - 1)
            /\ Cardinality(DOMAIN m) = K

\* C4 (amended): the keys are the non-empty identifiers; each value is the
\* 0-based position of the identifier's last occurrence; the values are
\* distinct and within 0..N-1, and are exactly 0..N-1 when every row has a
\* non-empty identifier and none repeats.
C4_RankIsLastPosition ==
    probe.stage = "ranked" =>
        LET rows == probe.rows
            m == probe.map
            N == Len(rows)
        IN  /\ DOMAIN m = IdsOf(rows)
            /\ \A id \in DOMAIN m : m[id] = MaxOf(PositionsOf(rows, id)) - 1
            /\ \A x, y \in DOMAIN m : m[x] = m[y] => x = y
            /\ RanksOf(m) \subseteq 0..(N - 1)
            /\ Cardinality(IdsOf(rows)) = N => RanksOf(m) = 0..(N - 1)

\* C4 witness: a list whose first row has no identifier and whose other two
\* rows share one; the map has the single rank 2.
C4_Witness ==
    /\ probe.stage = "ranked"
    /\ Len(probe.rows) = 3
    /\ IdStr(probe.rows[1]) = ""
    /\ IdStr(probe.rows[2]) = "a" /\ IdStr(probe.rows[3]) = "a"
    /\ probe.map = [k \in {"a"} |-> 2]

(***************************************************************************)
(* Date arithmetic of msUntilNextEvenHour30.  Instants are milliseconds    *)
(* after 2024-03-30T00:00:00Z; a zone gives the offset of local time.      *)
(***************************************************************************)
SecMs == 1 * 1000
MinMs == 60 * 1000
HourMs == 3600 * 1000

Zones == {"UTC", "Asia/Kolkata", "Europe/Berlin"}

\* Europe/Berlin goes from UTC+1 to UTC+2 at 2024-03-31T01:00:00Z
BerlinSpringForward == 25 * HourMs

\* <<offset before the zone's transition, offset after it>>, in minutes
ZoneOffsets(z) ==
    CASE z = "UTC" -> <<0, 0>>
      [] z = "Asia/Kolkata" -> <<330, 330>>
      [] z = "Europe/Berlin" -> <<60, 120>>

\* minutes local time is ahead of UTC at instant u
Offset(z, u) ==
    IF z = "Europe/Berlin" /\ u >= BerlinSpringForward
    THEN ZoneOffsets(z)[2] ELSE ZoneOffsets(z)[1]

\* LocalTime(t)
LocalTime(z, u) == u + Offset(z, u) * MinMs

\* UTC(t): a local time that no offset or both offsets explain is read
\* with the offset before the transition
UTCOf(z, l) ==
    LET u1 == l - ZoneOffsets(z)[1] * MinMs
        u2 == l - ZoneOffsets(z)[2] * MinMs
    IN  IF Offset(z, u1) = ZoneOffsets(z)[1] THEN u1
        ELSE IF Offset(z, u2) = ZoneOffsets(z)[2] THEN u2
        ELSE u1

getHours(z, u) == (LocalTime(z, u) \div HourMs) % 24
getMinutes(z, u) == (LocalTime(z, u) \div MinMs) % 60
getSeconds(z, u) == (LocalTime(z, u) \div SecMs) % 60
getMilliseconds(z, u) == LocalTime(z, u) % SecMs

\* t.setSeconds(0, 0)
SetSeconds00(z, u) == UTCOf(z, LocalTime(z, u) - (LocalTime(z, u) % MinMs))

\* cand.setMinutes(30, 0, 0)
SetMinutes30(z, u) ==
    UTCOf(z, LocalTime(z, u) - (LocalTime(z, u) % HourMs) + 30 * MinMs)

msUntilNextEvenHour30(z, n) ==
    LET t == SetSeconds00(z, n)
    IN  IF getHours(z, t) % 2 = 0 /\ getMinutes(z, t) < 30
        THEN SetMinutes30(z, t) - n
        ELSE LET addHours == IF getHours(z, t) % 2 = 1 THEN 1 ELSE 2
                 cand == t + addHours * 3600 * 1000
             IN  SetMinutes30(z, cand) - n

(***************************************************************************)
(* SpecSched: the re-fetch loop against a wall clock.                      *)
(***************************************************************************)
FirstHour == 20         \* first hour of the window of start instants
WindowHours == 8        \* its length

StartInstants ==
    {h * HourMs + m * MinMs + s * SecMs + ms :
        h \in FirstHour..(FirstHour + WindowHours - 1),
        m \in 0..59, s \in {0, 59}, ms \in {0, 999}}

FireLateness == {0, 4}      \* ms by which setTimeout runs the callback late
LoadLatency == {350}        \* ms loadData takes

InitSched ==
    /\ tz \in Zones
    /\ now \in StartInstants
    /\ due = 0
    /\ tpc = "init"
    /\ arms = 0
    /\ probe = ProbeParked
    /\ MainParked
    /\ ClockParked

\* arm() of the effect: ms = msUntilNextEvenHour30(); setTimeout(..., ms)
SchedArm ==
    /\ tpc = "init"
    /\ arms < MaxArms
    /\ due' = now + msUntilNextEvenHour30(tz, now)
    /\ tpc' = "armed"
    /\ arms' = arms + 1
    /\ UNCHANGED <<tz, now>>

\* the timeout expires and the callback starts loadData
SchedFire(late) ==
    /\ tpc = "armed"
    /\ now' = (IF due > now THEN due ELSE now) + late
    /\ tpc' = "loading"
    /\ UNCHANGED <<tz, due, arms>>

\* loadData settles after lat ms; the callback calls arm()
SchedRearm(lat) ==
    /\ tpc = "loading"
    /\ arms < MaxArms
    /\ now' = now + lat
    /\ due' = now' + msUntilNextEvenHour30(tz, now')
    /\ tpc' = "armed"
    /\ arms' = arms + 1
    /\ UNCHANGED tz

NextSched ==
    \/ SchedArm /\ UNCHANGED <<mainVars, probe, clockVars>>
    \/ \E late \in FireLateness : SchedFire(late) /\ UNCHANGED <<mainVars, probe, clockVars>>
    \/ \E lat \in LoadLatency : SchedRearm(lat) /\ UNCHANGED <<mainVars, probe, clockVars>>

SpecSched == InitSched /\ [][NextSched]_vars

\* instant u is minute 30, second 0 of an even hour on the client's clock
IsEvenHour30(z, u) ==
    /\ getHours(z, u) % 2 = 0
    /\ getMinutes(z, u) = 30
    /\ getSeconds(z, u) = 0
    /\ getMilliseconds(z, u) = 0

\* the earliest such instant strictly after n (zone offsets are multiples
\* of 30 minutes, so it is a multiple of 30 minutes after the reference)
NextEvenHour30(z, n) ==
    LET k0 == n \div (30 * MinMs)
        cands == {k * 30 * MinMs : k \in (k0 + 1)..(k0 + 8)}
        hits == {u \in cands : IsEvenHour30(z, u)}
    IN  CHOOSE u \in hits : \A w \in hits : u <= w

\* C9 (as claimed): the delay computed by arm() is positive, at most two
\* hours, and ends at the earliest even-hour :30 mark after now.
C9_DelayToNextEvenHour30 ==
    tpc = "armed" =>
        /\ due - now > 0
        /\ due - now <= 2 * HourMs
        /\ due = NextEvenHour30(tz, now)

\* C10 (as claimed): the armed timer is due at minute 30 of an hour that is
\* even in UTC, whatever the client's zone.
C10_DueIsEvenUtcHour30 ==
    tpc = "armed" =>
        /\ ((due \div HourMs) % 24) % 2 = 0
        /\ (due \div MinMs) % 60 = 30
        /\ due % MinMs = 0

\* C15: the next scheduled cycle is the sole retry: a timer that fires
\* starts one fetch cycle (no timer is pending while it runs), and when the
\* cycle has completed one timer is armed again, due at the following
\* even-hour :30 occurrence on the client's clock.
C15_RearmedForNextOccurrence ==
    /\ tpc = "loading" => arms >= 1
    /\ (tpc = "armed" /\ arms > 1) =>
           /\ due > now
           /\ IsEvenHour30(tz, due)
           /\ \A k \in 1..3 : ~(due - k * 30 * MinMs > now
                                 /\ IsEvenHour30(tz, due - k * 30 * MinMs))


(***************************************************************************)
(* UTC instants.  A Date's time value is kept as whole seconds since      *)
(* 1970-01-01T00:00:00Z and the milliseconds within that second, so that  *)
(* month-long differences stay inside TLC's integers.                     *)
(***************************************************************************)
DaySec == 24 * 3600
EpochYear == 1900 + 70

Instant(sec, msec) == [s |-> sec, ms |-> msec]

\* Date comparison by time value
Before(a, b) == a.s < b.s \/ (a.s = b.s /\ a.ms < b.ms)
NotBefore(a, b) == ~Before(a, b)            \* a >= b

\* ECMA-262 DaysInYear
IsLeap(y) == (y % 4 = 0 /\ y % 100 # 0) \/ y % 400 = 0

\* ECMA-262 DayFromYear(y)
DayFromYear(y) ==
    365 * (y - EpochYear) + ((y - 1969) \div 4) - ((y - 1901) \div 100)
        + ((y - 1601) \div 400)

\* ECMA-262 Day(t)
DayOf(t) == t.s \div DaySec

\* ECMA-262 YearFromTime(t): Date.prototype.getUTCFullYear
getUTCFullYear(t) ==
    CHOOSE y \in (EpochYear + DayOf(t) \div 366)..(EpochYear + DayOf(t) \div 365) :
        DayFromYear(y) <= DayOf(t) /\ DayOf(t) < DayFromYear(y + 1)

\* ECMA-262 DayWithinYear(t)
DayWithinYear(t) == DayOf(t) - DayFromYear(getUTCFullYear(t))

\* ECMA-262 MonthFromTime(t): first day-within-year of month m (0..11), and
\* of the month after December, for a year with leap = 0 or 1
MonthStartDay(m, leap) ==
    IF m = 0 THEN 0
    ELSE IF m = 1 THEN 31
    ELSE <<59, 90, 120, 151, 181, 212, 243, 273, 304, 334, 365>>[m - 1] + leap

\* Date.prototype.getUTCMonth
getUTCMonth(t) ==
    LET leap == IF IsLeap(getUTCFullYear(t)) THEN 1 ELSE 0
        dwy == DayWithinYear(t)
    IN  CHOOSE m \in 0..11 :
            MonthStartDay(m, leap) <= dwy /\ dwy < MonthStartDay(m + 1, leap)

\* Date.prototype.getUTCDate (ECMA-262 DateFromTime)
getUTCDate(t) ==
    LET leap == IF IsLeap(getUTCFullYear(t)) THEN 1 ELSE 0
    IN  DayWithinYear(t) - MonthStartDay(getUTCMonth(t), leap) + 1

\* days of month m (0..11) of year y
DaysInMonth(y, m) ==
    IF m = 1 THEN (IF IsLeap(y) THEN 29 ELSE 28)
    ELSE IF m \in {3, 5, 8, 10} THEN 30
    ELSE 31

RECURSIVE DaysBeforeMonth(_, _)
DaysBeforeMonth(y, m) ==
    IF m = 0 THEN 0 ELSE DaysBeforeMonth(y, m - 1) + DaysInMonth(y, m - 1)

\* Date.UTC(y, m, d, hh, mi, ss): ECMA-262 MakeDay carries a month index
\* outside 0..11 into the year
DateUTC(y, m, d, hh, mi, ss) ==
    LET ym == y + (m \div 12)
        mn == m % 12
        day == DayFromYear(ym) + DaysBeforeMonth(ym, mn) + (d - 1)
    IN  Instant(day * DaySec + hh * 3600 + mi * 60 + ss, 0)

\* the month index getNextMonthResetTarget hands to Date.UTC
ResetMonth_Current(m) == m

ResetMonth(m) == m + 1

getNextMonthResetTarget(n) ==
    LET y == getUTCFullYear(n)
        m == getUTCMonth(n)
    IN  DateUTC(y, ResetMonth(m), 1, 0, 0, 0)

\* target - now, in ms, as seconds and a millisecond part in 0..999
Minus(a, b) ==
    Instant(a.s - b.s - (IF a.ms < b.ms THEN 1 ELSE 0), (a.ms - b.ms) % 1000)

\* Math.max(0, x)
Max0(x) == IF x.s < 0 THEN Instant(0, 0) ELSE x

\* Math.floor(x / 1000)
FloorSeconds(x) == x.s

\* the hour field of diffToDHMS
HoursOf_NoDayWrap(totalSec) == totalSec \div 3600

HoursOf(totalSec) == (totalSec % 86400) \div 3600

diffToDHMS(t, n) ==
    LET left == Max0(Minus(t, n))
        totalSec == FloorSeconds(left)
    IN  [d |-> totalSec \div 86400,
         h |-> HoursOf(totalSec),
         m |-> (totalSec % 3600) \div 60,
         s |-> totalSec % 60]

(***************************************************************************)
(* SpecClock: the countdown of the App component.                          *)
(***************************************************************************)
ClockYear == 2023       \* the window of instants starts in November of it
ClockMonths == 6        \* and spans this many months

TimesOfDay ==
    {Instant(0, 0), Instant(0, 1), Instant(1, 0), Instant(10 * 3600, 0),
     Instant(DaySec - 1, 999)}

\* instants `new Date()` may return
Instants ==
    UNION {LET y == ClockYear + ((10 + k) \div 12)
               m == (10 + k) % 12
           IN  {Instant(DateUTC(y, m, d, 0, 0, 0).s + tod.s, tod.ms) :
                    d \in {1, 15, DaysInMonth(y, m)}, tod \in TimesOfDay}
           : k \in 0..(ClockMonths - 1)}

\* first render: useState(getNextMonthResetTarget()) reads the clock, then
\* useState(diffToDHMS(target)) reads it again; clock is the later reading
InitClock ==
    /\ \E r1 \in Instants :
           /\ target = getNextMonthResetTarget(r1)
           /\ \E r2 \in Instants :
                  /\ clock = r2
                  /\ tleft = diffToDHMS(target, r2)
    /\ tick = "init"
    /\ probe = ProbeParked
    /\ MainParked
    /\ SchedParked

\* the test of the interval callback: now >= target
RollsOver_Strict(n, t) == Before(t, n)

RollsOver(n, t) == NotBefore(n, t)

\* the setInterval callback runs at instant n; setTarget re-runs the effect,
\* which replaces the interval by one that closes over the new target
Tick(n) ==
    /\ clock' = n
    /\ IF RollsOver(n, target)
       THEN LET nextT == getNextMonthResetTarget(n)
            IN  /\ target' = nextT
                /\ tleft' = diffToDHMS(nextT, n)
                /\ tick' = "rolled"
       ELSE /\ tleft' = diffToDHMS(target, n)
            /\ tick' = "kept"
            /\ UNCHANGED target

NextClock ==
    \E n \in Instants : Tick(n) /\ UNCHANGED <<mainVars, probe, schedVars>>

SpecClock == InitClock /\ [][NextClock]_vars

\* t is 00:00:00.000 UTC on the 1st of a month
IsMonthStart(t) == t.ms = 0 /\ t.s % DaySec = 0 /\ getUTCDate(t) = 1

\* the UTC midnights strictly between a and b
MidnightsBetween(a, b) ==
    {t \in {Instant(dd * DaySec, 0) : dd \in DayOf(a)..DayOf(b)} :
        Before(a, t) /\ Before(t, b)}

\* C11: whenever the target has just been computed from the instant `clock`
\* (a tick that rolled over), it is 00:00:00.000 UTC on the 1st of the month
\* after clock's UTC month (January of the next year after December), it is
\* strictly later than clock, and no start of a UTC month lies strictly
\* between clock and it.
C11_NextMonthStart ==
    tick = "rolled" =>
        LET y == getUTCFullYear(clock)
            m == getUTCMonth(clock)
        IN  /\ IsMonthStart(target)
            /\ getUTCMonth(target) = (m + 1) % 12
            /\ getUTCFullYear(target) = (IF m = 11 THEN y + 1 ELSE y)
            /\ Before(clock, target)
            /\ \A t \in MidnightsBetween(clock, target) : ~IsMonthStart(t)

\* a target computed in December: the 1st of January of the next year
C11_Witness ==
    /\ tick = "rolled"
    /\ getUTCMonth(clock) = 11
    /\ getUTCDate(clock) = 15
    /\ target = DateUTC(getUTCFullYear(clock) + 1, 0, 1, 0, 0, 0)

\* t is the first start of a UTC month after n
IsNextMonthStart(t, n) ==
    /\ IsMonthStart(t)
    /\ Before(n, t)
    /\ \A x \in MidnightsBetween(n, t) : ~IsMonthStart(x)

\* C12: a tick whose now (clock') is at or after the target replaces the
\* target by the first instant of the UTC month following now and computes
\* tleft against the new target; a tick whose now is before the target keeps
\* it.  Over every tick the target does not decrease, and after the tick it
\* is strictly later than the tick's now.
C12_TickRollsOver ==
    [][ /\ NotBefore(clock', target) =>
             /\ IsNextMonthStart(target', clock')
             /\ tleft' = diffToDHMS(target', clock')
             /\ tick' = "rolled"
        /\ Before(clock', target) => (target' = target /\ tick' = "kept")
        /\ NotBefore(target', target)
        /\ Before(clock', target') ]_vars

\* a tick whose now is exactly a month start has rolled the target over to
\* the start of the month after it
C12_Witness ==
    /\ tick = "rolled"
    /\ IsMonthStart(clock)
    /\ IsNextMonthStart(target, clock)
    /\ tleft.d >= 28


(***************************************************************************)
(* SpecDiff: diffToDHMS applied to every pair of instants of the window.   *)
(***************************************************************************)
InitDiff ==
    /\ probe \in {[stage |-> "diff-in", target |-> t, now |-> n, out |-> <<>>] :
                     t \in Instants, n \in Instants}
    /\ MainParked
    /\ SchedParked
    /\ ClockParked

\* diffToDHMS(target, now)
ProbeDiff ==
    /\ probe.stage = "diff-in"
    /\ probe' = [probe EXCEPT !.stage = "diff-out",
                              !.out = diffToDHMS(probe.target, probe.now)]

NextDiff == ProbeDiff /\ UNCHANGED <<mainVars, schedVars, clockVars>>

SpecDiff == InitDiff /\ [][NextDiff]_vars

\* whole seconds from n to t, 0 when n is at or after t
WholeSecondsLeft(t, n) ==
    IF NotBefore(n, t) THEN 0
    ELSE IF t.ms >= n.ms THEN t.s - n.s ELSE t.s - n.s - 1

\* C13: for every pair (target, now) diffToDHMS returns d >= 0, 0 <= h < 24,
\* 0 <= m < 60, 0 <= s < 60 with d*86400 + h*3600 + m*60 + s equal to the
\* whole seconds of max(0, target - now); all four are 0 when now >= target.
C13_DiffDecomposition ==
    probe.stage = "diff-out" =>
        LET o == probe.out
        IN  /\ o.d >= 0
            /\ 0 <= o.h /\ o.h < 24
            /\ 0 <= o.m /\ o.m < 60
            /\ 0 <= o.s /\ o.s < 60
            /\ o.d * 86400 + o.h * 3600 + o.m * 60 + o.s
                   = WholeSecondsLeft(probe.target, probe.now)
            /\ NotBefore(probe.now, probe.target) =>
                   o = [d |-> 0, h |-> 0, m |-> 0, s |-> 0]

\* a difference of whole days less one millisecond: 23:59:59 and some days
C13_Witness ==
    /\ probe.stage = "diff-out"
    /\ Before(probe.now, probe.target)
    /\ probe.target.ms < probe.now.ms
    /\ probe.out.d > 0 /\ probe.out.h = 23 /\ probe.out.m = 59 /\ probe.out.s = 59


(***************************************************************************)
(* IEEE-754 binary64 arithmetic, as far as fmtDDHHMM uses it.  A positive  *)
(* finite Number is a significand m below 2^53 and an exponent e: its      *)
(* value is m * 2^e.  Integers too large for TLC are sequences of limbs of *)
(* LimbBits bits, most significant first, without leading zero limbs.      *)
(***************************************************************************)
SignificandBits == 53
LimbBits == 15
LimbBase == 2^LimbBits
DivShift == 4 * LimbBits    \* fraction bits carried by a division before rounding

RECURSIVE LimbsOf(_)
LimbsOf(n) == IF n = 0 THEN <<>> ELSE LimbsOf(n \div LimbBase) \o <<n % LimbBase>>

RECURSIVE NatOf(_)
NatOf(x) ==
    IF x = <<>> THEN 0 ELSE LimbBase * NatOf(SubSeq(x, 1, Len(x) - 1)) + x[Len(x)]

ZeroLimbs(k) == [j \in 1..k |-> 0]

RECURSIVE StripZeros(_)
StripZeros(x) == IF x # <<>> /\ Head(x) = 0 THEN StripZeros(Tail(x)) ELSE x

\* number of bits of x
BitLen(x) ==
    IF x = <<>> THEN 0
    ELSE LimbBits * (Len(x) - 1)
             + (CHOOSE k \in 1..LimbBits : 2^(k - 1) <= Head(x) /\ Head(x) < 2^k)

\* long division of x by a small integer d: quotient limbs and remainder
RECURSIVE DivFrom(_, _, _, _)
DivFrom(x, d, q, r) ==
    IF x = <<>> THEN [q |-> q, r |-> r]
    ELSE LET v == r * LimbBase + Head(x)
         IN  DivFrom(Tail(x), d, q \o <<v \div d>>, v % d)

DivSmall(x, d) ==
    LET dv == DivFrom(x, d, <<>>, 0)
    IN  [q |-> StripZeros(dv.q), r |-> dv.r]

\* product of x and a small integer c
RECURSIVE MulFrom(_, _, _, _)
MulFrom(x, c, carry, out) ==
    IF x = <<>> THEN LimbsOf(carry) \o out
    ELSE LET v == x[Len(x)] * c + carry
         IN  MulFrom(SubSeq(x, 1, Len(x) - 1), c, v \div LimbBase,
                     <<v % LimbBase>> \o out)

MulSmall(x, c) == StripZeros(MulFrom(x, c, 0, <<>>))

\* x + 1
RECURSIVE AddOne(_)
AddOne(x) ==
    IF x = <<>> THEN <<1>>
    ELSE IF x[Len(x)] < LimbBase - 1
         THEN SubSeq(x, 1, Len(x) - 1) \o <<x[Len(x)] + 1>>
    ELSE AddOne(SubSeq(x, 1, Len(x) - 1)) \o <<0>>

\* floor(x / 2^sh), and whether a non-zero part was shifted out
ShiftRight(x, sh) ==
    LET drop == sh \div LimbBits
    IN  IF drop >= Len(x) THEN [q |-> <<>>, inexact |-> x # <<>>]
        ELSE LET kept == SubSeq(x, 1, Len(x) - drop)
                 dv == DivSmall(kept, 2^(sh % LimbBits))
             IN  [q |-> dv.q,
                  inexact |-> dv.r # 0
                                \/ \E j \in (Len(x) - drop + 1)..Len(x) : x[j] # 0]

\* round x * 2^e (plus a non-zero part below x's last bit when inexact) to
\* the nearest Number, ties to even; inexact only with more than 54 bits
RoundNearestEven(x, inexact, e) ==
    LET len == BitLen(x)
    IN  IF len <= SignificandBits THEN [m |-> x, e |-> e]
        ELSE LET sh == ShiftRight(x, len - SignificandBits - 1)
                 guard == sh.q[Len(sh.q)] % 2
                 keep == DivSmall(sh.q, 2).q
                 sticky == inexact \/ sh.inexact
                 up == guard = 1 /\ (sticky \/ keep[Len(keep)] % 2 = 1)
             IN  [m |-> IF up THEN AddOne(keep) ELSE keep,
                  e |-> e + (len - SignificandBits)]

\* the Number nearest to n / d, for integers n > 0 and 60 >= d > 0: how a
\* JSON body gives a duration of n minutes as hours (d = 60)
DoubleOfRatio(n, d) ==
    LET dv == DivSmall(LimbsOf(n) \o ZeroLimbs(DivShift \div LimbBits), d)
    IN  RoundNearestEven(dv.q, dv.r # 0, -DivShift)

\* x * c for a Number x > 0 and a small integer c > 0
MulDouble(x, c) == RoundNearestEven(MulSmall(x.m, c), FALSE, x.e)

\* Math.floor(x) for a Number x > 0 below 2^31
FloorDouble(x) ==
    IF x.e >= 0 THEN NatOf(x.m) * 2^(x.e) ELSE NatOf(ShiftRight(x.m, -x.e).q)

(***************************************************************************)
(* fmtDDHHMM.                                                              *)
(***************************************************************************)
\* values of row.time_taken_hours
HoursNum(sign, x) == [t |-> "num", sign |-> sign, x |-> x]
HoursOfMinutes(mins) ==
    IF mins > 0 THEN HoursNum(1, DoubleOfRatio(mins, 60))
    ELSE IF mins = 0 THEN HoursNum(0, <<>>)
    ELSE HoursNum(-1, DoubleOfRatio(-mins, 60))
HoursInfinity == [t |-> "inf", sign |-> 1, x |-> <<>>]
HoursNull == [t |-> "null", sign |-> 0, x |-> <<>>]
HoursUndefined == [t |-> "undefined", sign |-> 0, x |-> <<>>]
HoursText == [t |-> "text", sign |-> 0, x |-> <<>>]       \* "abc"

\* Number(hoursVal): null -> 0, undefined and text that is no number -> NaN
NumberOfHours(v) ==
    CASE v.t = "num" -> v
      [] v.t = "inf" -> v
      [] v.t = "null" -> HoursNum(0, <<>>)
      [] OTHER -> [t |-> "nan", sign |-> 0, x |-> <<>>]

\* String(n).padStart(2, "0")
pad2(n) ==
    LET str == StringOfNumber(n)
    IN  IF Len(str) < 2 THEN <<"0">> \o str ELSE str

fmtDDHHMM(hoursVal) ==
    LET h == NumberOfHours(hoursVal)
    IN  IF h.t # "num" \/ h.sign <= 0 THEN <<"0", "0", ":", "0", "0", ":", "0", "0">>
        ELSE LET totalMinutes == FloorDouble(MulDouble(h.x, 60))
                 dd == totalMinutes \div (24 * 60)
                 rem == totalMinutes % (24 * 60)
                 hh == rem \div 60
                 mm == rem % 60
             IN  pad2(dd) \o <<":">> \o pad2(hh) \o <<":">> \o pad2(mm)


(***************************************************************************)
(* SpecFmt: fmtDDHHMM applied to durations of whole minutes and to values  *)
(* that are no positive number.                                            *)
(***************************************************************************)
MaxMinutes == 130       \* durations of -5..MaxMinutes minutes are formatted

\* longer durations: 25 hours, 2 days less a minute, 99 days 23:59
LongDurations == {25 * 60, 2 * 24 * 60 - 1, 100 * 24 * 60 - 1}

FmtInputs ==
    {[mins |-> mm, hoursVal |-> HoursOfMinutes(mm)] :
        mm \in (-5..MaxMinutes) \cup LongDurations \cup {-5 * 60}}
        \cup {[mins |-> 0, hoursVal |-> v] :
                 v \in {HoursNull, HoursUndefined, HoursText, HoursInfinity}}

InitFmt ==
    /\ probe \in {[stage |-> "fmt-in", mins |-> x.mins, hoursVal |-> x.hoursVal,
                   out |-> <<>>] : x \in FmtInputs}
    /\ MainParked
    /\ SchedParked
    /\ ClockParked

\* fmtDDHHMM(row.time_taken_hours)
ProbeFmt ==
    /\ probe.stage = "fmt-in"
    /\ probe' = [probe EXCEPT !.stage = "fmt-out", !.out = fmtDDHHMM(probe.hoursVal)]

NextFmt == ProbeFmt /\ UNCHANGED <<mainVars, schedVars, clockVars>>

SpecFmt == InitFmt /\ [][NextFmt]_vars

\* n below 100 as two decimal digits
TwoDigits(n) ==
    LET digit == <<"0", "1", "2", "3", "4", "5", "6", "7", "8", "9">>
    IN  <<digit[(n \div 10) + 1], digit[(n % 10) + 1]>>

\* C17 (as claimed): a duration of M > 0 whole minutes, given as M/60 hours,
\* is formatted as dd:hh:mm with dd = M div 1440, hh = (M mod 1440) div 60,
\* mm = M mod 60, two digits each; zero, negative and non-numeric values are
\* formatted as 00:00:00.
C17_FmtWholeMinutes ==
    probe.stage = "fmt-out" =>
        probe.out =
            (IF probe.mins > 0
             THEN TwoDigits(probe.mins \div 1440) \o <<":">>
                      \o TwoDigits((probe.mins % 1440) \div 60) \o <<":">>
                      \o TwoDigits(probe.mins % 60)
             ELSE <<"0", "0", ":", "0", "0", ":", "0", "0">>)

=============================================================================
